---- MODULE Spec2Model ----
(***************************************************************************)
(* tcache: a generic key/value cache with LRU eviction, per-entry TTL      *)
(* timers, lifecycle hooks and per-key watch callbacks (src/tcache.go).    *)
(*                                                                         *)
(* The cache is a map  items : K -> *list.Element  plus a container/list   *)
(* whose elements hold *Item values.  List elements and timers are         *)
(* modelled by identities (small integers) so that two elements holding    *)
(* the same key are told apart, exactly as two pointers are.               *)
(*                                                                         *)
(* Every operation is an operator XxxOp on the cache value returning the   *)
(* new cache, the hook and watch calls it made, and what it returned.      *)
(* The specifications share these operators:                               *)
(*   Spec         every operation, called one after the other              *)
(*   SpecBasic    Set, Get, Has                                            *)
(*   SpecLRU      the operations without a TTL, watches included           *)
(*   SpecTTL      entries with a TTL and their timers                      *)
(*   SpecConc     goroutines calling Set, Get, Delete concurrently         *)
(*   SpecConcTTL  goroutines and timer callbacks running concurrently      *)
(*   SpecUpdate   Update and UpdateWithTTL on entries with and without TTL *)
(*   SpecRefresh  Refresh moving the deadline of entries with a TTL        *)
(*   SpecFrame    the operations that only read, and the updates           *)
(*   SpecWatch    a watched key under the operations that name it          *)
(*   SpecCap      SetCapacity with any integer argument                    *)
(*   SpecExpiry   TTL writes followed by reads, timers firing fairly       *)
(* Durations are abstracted to their sign, and an armed timer may fire at  *)
(* any moment.  A nil dereference ends the run in status "panic".          *)
(***************************************************************************)
EXTENDS Integers, Sequences, FiniteSets, TLC

\* ------------------------------------------------------------------ bounds
MaxCap == 2
MaxList == 3
MaxTimers == 2
NumThreads == 2
MaxThreadOps == 2
MaxGets == 2

AllKeys == <<"a", "b", "c", "d", "e">>
\* one key more than the largest capacity
KeySeq == SubSeq(AllKeys, 1, MaxCap + 1)
Keys == {KeySeq[i] : i \in 1 .. Len(KeySeq)}
Values == {1, 2}
FewKeys == {"a", "b"}
OneValue == {1}
\* var zero V: the value of a watch placeholder and of a missed Get
Zero == 0
\* time.Duration arguments: only the sign is read (ttl > 0)
TTLs == {0, 1}
CapArgs == 1 .. MaxCap
ElemIds == 1 .. (MaxList + 2 * MaxTimers + NumThreads + 2)
TimerIds == 1 .. (MaxTimers + 1)
Threads == 1 .. NumThreads

\* Item.timer == nil
NoTimer == 0
\* Item.timer points to a timer that was stopped or has fired
DeadTimer == -1

\* the hooks registered on the cache (OnInsert .. OnEvict were called)
Registered == {"onInsert", "onUpdate", "onDelete", "onExpire", "onEvict"}

VARIABLES
  items,     \* c.items: key -> element identity
  list,      \* c.list: element identities, front (most recent) first
  node,      \* element identity -> the *Item it holds
  timers,    \* armed timers: timer identity -> its callback's closure
  capacity,  \* c.capacity
  status,    \* "running", "panic" (a nil dereference), "hung" (endless loop),
             \* "raced" (two goroutines were in the map or the list at once)
  calls,     \* hook and watch invocations made by the last step, in order
  lru,       \* observer: the run so far is Sets of distinct keys on a fresh cache
  mon,       \* observer: the life of the latest SetWithTTL entry
  due,       \* observer: the key whose latest write gave it a TTL, and the Gets since
  guard,     \* c.mu: [w |-> writer or 0, r |-> set of readers]
  thr,       \* goroutines of the concurrent specification
  cbs        \* running timer-callback goroutines of the concurrent specification

cacheVars == <<items, list, node, timers, capacity, status>>
obsVars == <<calls, lru, mon, due>>
concVars == <<guard, thr, cbs>>
vars == <<items, list, node, timers, capacity, status, calls, lru, mon, due,
          guard, thr, cbs>>

\* ----------------------------------------------------------------- helpers
SeqSet(s) == {s[i] : i \in 1 .. Len(s)}
Min(S) == CHOOSE x \in S : \A y \in S : x <= y
Drop(f, x) == [y \in (DOMAIN f) \ {x} |-> f[y]]
Put(f, x, v) == [y \in (DOMAIN f) \cup {x} |-> IF y = x THEN v ELSE f[y]]
\* every order of the members of S (the orders in which range c.items may
\* visit the keys)
Orders(S) == {o \in [1 .. Cardinality(S) -> S] : \A i, j \in DOMAIN o : i # j => o[i] # o[j]}

\* The cache as one value: what an operation reads and returns.
Cache == [items |-> items, list |-> list, node |-> node, timers |-> timers,
          capacity |-> capacity, status |-> status]

\* &Item{key:, value:, timer:, ttl:, onWatch:}
Item(k, v, t, ttl, w) == [key |-> k, value |-> v, timer |-> t, ttl |-> ttl,
                          onWatch |-> w, isNil |-> FALSE]
\* var newItem *Item[K, V] left unassigned
NilItem == [key |-> "nil", value |-> Zero, timer |-> NoTimer, ttl |-> 0,
            onWatch |-> FALSE, isNil |-> TRUE]

\* c.onX(key, value) when the hook is registered
Hook(fn, k, v) ==
  IF fn \in Registered
    THEN <<[fn |-> fn, key |-> k, op |-> "-", old |-> v, new |-> v]>>
    ELSE <<>>
\* c.onUpdate(key, x, y): the two values in argument order
Hook2(fn, k, x, y) ==
  IF fn \in Registered
    THEN <<[fn |-> fn, key |-> k, op |-> "-", old |-> x, new |-> y]>>
    ELSE <<>>
\* item.onWatch(key, op, oldValue, newValue)
Watch(k, op, x, y) == <<[fn |-> "onWatch", key |-> k, op |-> op, old |-> x, new |-> y]>>

\* container/list
ListRemove(l, e) == SelectSeq(l, LAMBDA x : x # e)
ListMoveToFront(l, e) == IF e \in SeqSet(l) THEN <<e>> \o ListRemove(l, e) ELSE l
ListPushFront(l, e) == <<e>> \o l
\* c.list.Back() / an eviction that takes c.list.Front() instead
ListFront(l) == l[1]
ListBack(l) == l[Len(l)]

\* a new *list.Element / *time.Timer: an identity not in use
FreshElem(c) == Min(ElemIds \ (DOMAIN c.node))
FreshTimer(c) == Min(TimerIds \ (DOMAIN c.timers))

\* timer.Stop(): the timer leaves the armed set; the Item keeps a non-nil pointer
StopTimer(c, t) ==
  IF t \in DOMAIN c.timers
    THEN [c EXCEPT !.timers = Drop(c.timers, t),
                   !.node = [e \in DOMAIN c.node |->
                               IF c.node[e].timer = t
                                 THEN [c.node[e] EXCEPT !.timer = DeadTimer]
                                 ELSE c.node[e]]]
    ELSE c

\* time.AfterFunc(ttl, func() {...}): arm a timer whose closure holds
\* kind (which callback), key, value and, for Refresh, the captured element
Arm(c, t, kind, k, v, e) ==
  [c EXCEPT !.timers = Put(c.timers, t, [kind |-> kind, key |-> k, value |-> v, elem |-> e])]

\* Elements no longer reachable from the list or from an armed closure are
\* collected (Go's garbage collector), so identities can be reused.
\* roots: the elements goroutines hold in local variables
Live(c, roots) == SeqSet(c.list) \cup {c.timers[t].elem : t \in DOMAIN c.timers} \cup roots
Collect(c, roots) ==
  [c EXCEPT !.node = [e \in (DOMAIN c.node) \cap Live(c, roots) |-> c.node[e]]]

\* Pointer values carry no meaning of their own: after every call the elements
\* and the timers are renumbered in a fixed order (the list from front to back,
\* then the elements only a closure still holds; the timers stored in those
\* Items in the same order, then the timers no Item points to any more).
KeyIdx(k) == CHOOSE i \in 1 .. Len(KeySeq) : KeySeq[i] = k
KindIdx(kind) == CASE kind = "set" -> 1 [] kind = "upd" -> 2 [] OTHER -> 3
ItemRank(it) ==
  ((KeyIdx(it.key) * 4 + it.value) * 2 + (IF it.onWatch THEN 1 ELSE 0)) * 2 + it.ttl
ClosureRank(tm) == (KindIdx(tm.kind) * 4 + KeyIdx(tm.key)) * 4 + tm.value
ElemOrder(c) ==
  LET rest == (DOMAIN c.node) \ SeqSet(c.list)
  IN c.list \o (CHOOSE s \in Orders(rest) :
                  \A i, j \in DOMAIN s :
                    i < j => ItemRank(c.node[s[i]]) <= ItemRank(c.node[s[j]]))
TimerOrder(c, eo) ==
  LET held == SelectSeq(eo, LAMBDA e : c.node[e].timer \in DOMAIN c.timers)
      att == [i \in DOMAIN held |-> c.node[held[i]].timer]
      rest == (DOMAIN c.timers) \ SeqSet(att)
  IN att \o (CHOOSE s \in Orders(rest) :
               \A i, j \in DOMAIN s :
                 i < j => ClosureRank(c.timers[s[i]]) <= ClosureRank(c.timers[s[j]]))
Index(s, x) == CHOOSE i \in DOMAIN s : s[i] = x
Canon(c0, roots) ==
  LET c == Collect(c0, roots)
      eo == ElemOrder(c)
      to == TimerOrder(c, eo)
      NewT(t) == IF t \in DOMAIN c.timers THEN Index(to, t) ELSE t
      NewE(e) == IF e \in DOMAIN c.node THEN Index(eo, e) ELSE 0
  IN [c |-> [c EXCEPT
               !.items = [k \in DOMAIN c.items |-> NewE(c.items[k])],
               !.list = [i \in DOMAIN c.list |-> i],
               !.node = [i \in DOMAIN eo |->
                           [c.node[eo[i]] EXCEPT !.timer = NewT(@)]],
               !.timers = [i \in DOMAIN to |->
                             [c.timers[to[i]] EXCEPT !.elem = NewE(@)]]],
      tmap |-> [t \in DOMAIN c.timers |-> Index(to, t)],
      emap |-> [e \in DOMAIN c.node |-> Index(eo, e)]]

\* the result of an operation: the cache, the calls it made, what it returned
Res(c, cs, ok, v) == [c |-> c, calls |-> cs, ok |-> ok, val |-> v]
Panic(c, cs) == Res([c EXCEPT !.status = "panic"], cs, FALSE, Zero)

\* ------------------------------------------------------------- operations
\* The body of "if backItem != nil" in Set, SetWithTTL and SetCapacity: the
\* back element leaves the map (by its key) and the list, and onEvict fires.
\* Only SetWithTTL stops the victim's timer first (stop = TRUE).
Evict(c, stop) ==
  LET b == ListBack(c.list)
      it == c.node[b]
      c1 == IF stop THEN StopTimer(c, it.timer) ELSE c
  IN Res([c1 EXCEPT !.items = Drop(@, it.key), !.list = ListRemove(@, b)],
         Hook("onEvict", it.key, it.value), TRUE, Zero)

\* the Item that Set / SetWithTTL push: nil when the key exists without a watch
NewItem(exists, old, k, v, t, ttl) ==
  IF exists
    THEN IF old.onWatch THEN Item(k, v, t, 0, TRUE) ELSE NilItem
    ELSE Item(k, v, t, ttl, FALSE)

\* Shared tail of Set and SetWithTTL, from "if c.list.Len() >= c.capacity" on.
\* c: the cache after the existing element was moved to the front;
\* old: the Item found under k (NilItem when absent); t: the new timer or nil.
Insert(c, exists, old, k, v, t, ttl, stop) ==
  LET full == Len(c.list) >= c.capacity /\ c.list # <<>>
      ev == Evict(c, stop)
      c2 == IF full THEN ev.c ELSE c
      cs2 == IF full
               THEN ev.calls \o (IF exists /\ old.onWatch
                                   THEN Watch(k, "EVICT", v, v) ELSE <<>>)
               ELSE <<>>
      newItem == NewItem(exists, old, k, v, t, ttl)
      e == FreshElem(c2)
      c3 == [c2 EXCEPT !.list = ListPushFront(@, e),
                       !.node = Put(@, e, newItem),
                       !.items = Put(@, k, e)]
  IN IF newItem.isNil
       THEN Panic(c3, cs2)  \* c.items[key].Value.(*Item).onWatch on a nil *Item
       ELSE Res(c3,
                cs2 \o (IF newItem.onWatch
                          THEN Watch(k, "UPDATE", old.value, v) ELSE <<>>)
                    \o Hook("onInsert", k, v),
                TRUE, Zero)

SetOp(c, k, v) ==
  LET exists == k \in DOMAIN c.items
      item == IF exists THEN c.items[k] ELSE 0
      old == IF exists THEN c.node[item] ELSE NilItem
      c1 == IF exists
              THEN [StopTimer(c, old.timer) EXCEPT !.list = ListMoveToFront(@, item)]
              ELSE c
  IN Insert(c1, exists, old, k, v, NoTimer, 0, FALSE)

SetWithTTLOp(c, k, v, ttl) ==
  LET exists == k \in DOMAIN c.items
      item == IF exists THEN c.items[k] ELSE 0
      old == IF exists THEN c.node[item] ELSE NilItem
      c1 == IF exists
              THEN [StopTimer(c, old.timer) EXCEPT !.list = ListMoveToFront(@, item)]
              ELSE c
      t == FreshTimer(c1)
      c2 == IF ttl > 0 THEN Arm(c1, t, "set", k, v, 0) ELSE c1
  IN IF exists /\ old.timer = NoTimer
       THEN Panic(c, <<>>)  \* item.timer.Stop() on a nil *time.Timer
       ELSE Insert(c2, exists, old, k, v, IF ttl > 0 THEN t ELSE NoTimer, ttl, TRUE)

RefreshOp(c, k, ttl) ==
  IF k \notin DOMAIN c.items
    THEN Res(c, <<>>, FALSE, Zero)
    ELSE LET item == c.items[k]
             c1 == StopTimer(c, c.node[item].timer)
             t == FreshTimer(c1)
             c2 == IF ttl > 0
                     THEN [Arm(c1, t, "refresh", k, Zero, item)
                             EXCEPT !.node[item].timer = t]
                     ELSE c1
         IN Res([c2 EXCEPT !.node[item].ttl = ttl], <<>>, TRUE, Zero)

\* Len(): len(c.items)
LenOp(c) == Res(c, <<>>, TRUE, Cardinality(DOMAIN c.items))

\* GetAllKeys / GetAllValues / GetAllItems: range c.items in the order ord
GetAllKeysOp(c, ord) == Res(c, <<>>, TRUE, ord)
GetAllValuesOp(c, ord) ==
  Res(c, <<>>, TRUE, [i \in DOMAIN ord |-> c.node[c.items[ord[i]]].value])
GetAllItemsOp(c) ==
  Res(c, <<>>, TRUE, [k \in DOMAIN c.items |-> c.node[c.items[k]].value])

\* fn(key, value) called by Range
Visit(k, v) == <<[fn |-> "fn", key |-> k, op |-> "-", old |-> v, new |-> v]>>
\* Range(fn): range c.items in the order ord, calling fn on each pair until
\* fn returns false; stop is the set of keys on which fn returns false
RECURSIVE RangeLoop(_, _, _, _)
RangeLoop(c, ord, stop, cs) ==
  IF ord = <<>>
    THEN Res(c, cs, TRUE, Zero)
    ELSE LET k == Head(ord)
             cs1 == cs \o Visit(k, c.node[c.items[k]].value)
         IN IF k \in stop
              THEN Res(c, cs1, TRUE, Zero)
              ELSE RangeLoop(c, Tail(ord), stop, cs1)
RangeOp(c, ord, stop) == RangeLoop(c, ord, stop, <<>>)

\* an Update that also promoted the entry to most recent
UpdatePromotes(c, k, v) ==
  IF k \notin DOMAIN c.items
    THEN Res(c, <<>>, FALSE, Zero)
    ELSE LET item == c.items[k]
             c1 == [c EXCEPT !.node[item].value = v,
                             !.list = ListMoveToFront(@, item)]
         IN Res(c1, Hook2("onUpdate", k, v, c1.node[item].value), TRUE, Zero)

UpdateOp(c, k, v) ==
  IF k \notin DOMAIN c.items
    THEN Res(c, <<>>, FALSE, Zero)
    ELSE LET item == c.items[k]
             c1 == [c EXCEPT !.node[item].value = v]
         IN Res(c1, Hook2("onUpdate", k, v, c1.node[item].value), TRUE, Zero)

UpdateWithTTLOp(c, k, v, ttl) ==
  IF k \notin DOMAIN c.items
    THEN Res(c, <<>>, FALSE, Zero)
    ELSE LET item == c.items[k]
             c1 == StopTimer(c, c.node[item].timer)
             t == FreshTimer(c1)
             c2 == IF ttl > 0 THEN Arm(c1, t, "upd", k, v, 0) ELSE c1
             c3 == [c2 EXCEPT !.node[item].value = v,
                              !.node[item].timer = IF ttl > 0 THEN t ELSE NoTimer]
         IN Res(c3, Hook2("onUpdate", k, v, c3.node[item].value), TRUE, Zero)

DeleteOp(c, k) ==
  IF k \notin DOMAIN c.items
    THEN Res(c, <<>>, FALSE, Zero)
    ELSE LET item == c.items[k]
             it == c.node[item]
             c1 == StopTimer(c, it.timer)
             c2 == [c1 EXCEPT !.items = Drop(@, k), !.list = ListRemove(@, item)]
         IN Res(c2,
                Hook("onDelete", k, it.value)
                  \o (IF it.onWatch THEN Watch(k, "DELETE", it.value, it.value)
                                    ELSE <<>>),
                TRUE, Zero)

\* range c.items visits the keys in an order the runtime picks: ord
RECURSIVE DeleteAllLoop(_, _, _)
DeleteAllLoop(c, ord, cs) ==
  IF ord = <<>>
    THEN Res(c, cs, TRUE, Zero)
    ELSE LET k == Head(ord)
             item == c.items[k]
             it == c.node[item]
             c1 == StopTimer(c, it.timer)
             c2 == [c1 EXCEPT !.items = Drop(@, k), !.list = ListRemove(@, item)]
         IN IF it.timer # NoTimer
              THEN DeleteAllLoop(c2, Tail(ord), cs \o Hook("onDelete", k, it.value))
              ELSE DeleteAllLoop(c, Tail(ord), cs)
DeleteAllOp(c, ord) == DeleteAllLoop(c, ord, <<>>)

GetOp(c, k) ==
  IF k \notin DOMAIN c.items
    THEN Res(c, <<>>, FALSE, Zero)
    ELSE LET item == c.items[k]
             r == RefreshOp(c, k, c.node[item].ttl)
             c1 == [r.c EXCEPT !.list = ListMoveToFront(@, item)]
         IN Res(c1, r.calls, TRUE, c1.node[item].value)

HasOp(c, k) == Res(c, <<>>, k \in DOMAIN c.items, Zero)

\* for c.list.Len() > c.capacity { ... }: with nothing left to remove and the
\* condition still true the loop never ends
RECURSIVE SetCapacityLoop(_, _)
SetCapacityLoop(c, cs) ==
  IF Len(c.list) > c.capacity
    THEN IF c.list = <<>>
           THEN Res([c EXCEPT !.status = "hung"], cs, FALSE, Zero)
           ELSE LET ev == Evict(c, FALSE)
                IN SetCapacityLoop(ev.c, cs \o ev.calls)
    ELSE Res(c, cs, TRUE, Zero)
SetCapacityOp(c, n) == SetCapacityLoop([c EXCEPT !.capacity = n], <<>>)

OnWatchOp(c, k) ==
  IF k \in DOMAIN c.items
    THEN Res([c EXCEPT !.node[c.items[k]].onWatch = TRUE], <<>>, TRUE, Zero)
    ELSE LET e == FreshElem(c)
         IN Res([c EXCEPT !.list = ListPushFront(@, e),
                          !.node = Put(@, e, Item(k, Zero, NoTimer, 0, TRUE)),
                          !.items = Put(@, k, e)],
                <<>>, TRUE, Zero)

\* The callback armed by SetWithTTL and UpdateWithTTL: the closure holds key
\* and value; it looks the key up again and removes whatever is stored there.
ExpireCallback(c, tm) ==
  IF tm.key \in DOMAIN c.items
    THEN Res([c EXCEPT !.list = ListRemove(@, c.items[tm.key]),
                       !.items = Drop(@, tm.key)],
             Hook("onExpire", tm.key, tm.value), TRUE, Zero)
    ELSE Res(c, <<>>, FALSE, Zero)

\* The callback armed by Refresh: the closure holds key and the element.
RefreshCallback(c, tm) ==
  LET cs1 == Hook("onDelete", tm.key, c.node[tm.elem].value)
      d == DeleteOp(c, tm.key)
  IN Res([d.c EXCEPT !.list = ListRemove(@, tm.elem)], cs1 \o d.calls, d.ok, Zero)

\* an armed timer t fires: it is no longer armed, and its callback runs
FireOp(c, t) ==
  LET tm == c.timers[t]
      c0 == StopTimer(c, t)
  IN IF tm.kind = "refresh" THEN RefreshCallback(c0, tm) ELSE ExpireCallback(c0, tm)

\* -------------------------------------------------------------- observers
LruOff == [fresh |-> FALSE, cap0 |-> 0, keys |-> <<>>, vals |-> <<>>, evicts |-> <<>>]
MonOff == [phase |-> "off", key |-> "-", val |-> Zero, tid |-> NoTimer, gets |-> 0,
           getOk |-> TRUE, hooks |-> <<>>]

IsEvict(call) == call.fn = "onEvict"
IsExpire(call) == call.fn = "onExpire"

\* lru follows a run that, from construction on, consists of Set calls with
\* pairwise distinct keys only; it keeps the keys, the values and the onEvict calls
LruNext(name, k, v, r) ==
  IF lru.fresh /\ name = "Set" /\ k \notin SeqSet(lru.keys)
    THEN [lru EXCEPT !.keys = Append(@, k), !.vals = Append(@, v),
                     !.evicts = @ \o SelectSeq(r.calls, IsEvict)]
    ELSE LruOff

\* an operation (not a timer) that names key, or removes it
Touches(name, k, r, key) ==
  /\ name # "Fire"
  /\ \/ k = key
     \/ name \in {"DeleteAll", "SetCapacity"}
     \/ \E i \in 1 .. Len(r.calls) : IsEvict(r.calls[i]) /\ r.calls[i].key = key

\* mon follows the entry created by the latest SetWithTTL(k, v, ttl > 0) on an
\* absent key: the timer now stored in the entry (tid), whether Get(k) was called
\* and returned (v, true), the hook calls timers made for k, and whether the
\* entry's timer has fired.  Any other operation on k ends the observation.
MonNext(name, k, v, ttl, r, t) ==
  IF name = "SetWithTTL" /\ ttl > 0 /\ k \notin DOMAIN items /\ r.c.status = "running"
    THEN [phase |-> "armed", key |-> k, val |-> v,
          tid |-> r.c.node[r.c.items[k]].timer, gets |-> 0, getOk |-> TRUE,
          hooks |-> <<>>]
  ELSE IF mon.phase = "off" THEN mon
  ELSE IF name = "Get" /\ k = mon.key /\ mon.phase = "armed"
    THEN [mon EXCEPT !.gets = 1,
                     !.getOk = @ /\ r.ok /\ r.val = mon.val,
                     !.tid = IF r.ok THEN r.c.node[r.c.items[k]].timer ELSE @]
  ELSE IF Touches(name, k, r, mon.key) THEN MonOff
  ELSE IF mon.phase = "armed" /\ t # mon.tid /\ mon.tid \notin DOMAIN r.c.timers
    THEN MonOff  \* the entry's timer was stopped: it will never fire
  ELSE IF name = "Fire"
    THEN [mon EXCEPT !.hooks = @ \o SelectSeq(r.calls, LAMBDA x : x.key = mon.key),
                     !.phase = IF t = mon.tid THEN "fired" ELSE @]
  ELSE mon

\* due follows the key whose most recent write was SetWithTTL or UpdateWithTTL
\* with ttl > 0 (the call returned), and counts the Get calls on it since.  A
\* Set, SetWithTTL, Update, UpdateWithTTL, Refresh or Delete on that key ends
\* the observation; calls on other keys and timers do not.  n alternates
\* between 0 and 1 from one observed write to the next.  The observer is
\* switched on by the initial state of the specification that reads it.
DueOff == [phase |-> "off", key |-> "-", gets |-> 0, n |-> 0]
DueIdle == [phase |-> "idle", key |-> "-", gets |-> 0, n |-> 0]
DueNext(name, k, ttl, r) ==
  IF due.phase = "off" THEN due
  ELSE IF name \in {"SetWithTTL", "UpdateWithTTL"} /\ ttl > 0 /\ r.ok
            /\ r.c.status = "running"
    THEN [phase |-> "pending", key |-> k, gets |-> 0, n |-> 1 - due.n]
  ELSE IF due.phase = "pending" /\ k = due.key /\ name = "Get"
    THEN [due EXCEPT !.gets = IF @ < MaxGets THEN @ + 1 ELSE @]
  ELSE IF due.phase = "pending" /\ k = due.key
            /\ name \in {"Set", "SetWithTTL", "Update", "UpdateWithTTL", "Refresh", "Delete"}
    THEN [DueIdle EXCEPT !.n = due.n]
  ELSE due

\* ----------------------------------------------------------------- actions
\* the model's bounds on the list and on the armed timers
Within(c) == Len(c.list) <= MaxList /\ Cardinality(DOMAIN c.timers) <= MaxTimers

\* One completed call: the cache becomes r.c, the observers record the call.
Step(name, k, v, ttl, r, t) ==
  /\ status = "running"
  /\ Within(r.c)
  /\ LET cn == Canon(r.c, {})
         c == cn.c
         m == MonNext(name, k, v, ttl, r, t)
     IN /\ items' = c.items
        /\ list' = c.list
        /\ node' = c.node
        /\ timers' = c.timers
        /\ capacity' = c.capacity
        /\ status' = c.status
        /\ mon' = [m EXCEPT !.tid = IF @ \in DOMAIN cn.tmap THEN cn.tmap[@] ELSE NoTimer]
  /\ calls' = r.calls
  /\ lru' = LruNext(name, k, v, r)
  /\ due' = DueNext(name, k, ttl, r)

\* a goroutine between two calls, having completed n of them
IdleThread(n) == [pc |-> "idle", key |-> "-", val |-> Zero, item |-> 0, ttl |-> 0, n |-> n]

Set(k, v) == Step("Set", k, v, 0, SetOp(Cache, k, v), NoTimer) /\ UNCHANGED concVars
SetWithTTL(k, v, ttl) ==
  Step("SetWithTTL", k, v, ttl, SetWithTTLOp(Cache, k, v, ttl), NoTimer) /\ UNCHANGED concVars
Get(k) == Step("Get", k, Zero, 0, GetOp(Cache, k), NoTimer) /\ UNCHANGED concVars
Has(k) == Step("Has", k, Zero, 0, HasOp(Cache, k), NoTimer) /\ UNCHANGED concVars
Update(k, v) == Step("Update", k, v, 0, UpdateOp(Cache, k, v), NoTimer) /\ UNCHANGED concVars
UpdateWithTTL(k, v, ttl) ==
  Step("UpdateWithTTL", k, v, ttl, UpdateWithTTLOp(Cache, k, v, ttl), NoTimer)
    /\ UNCHANGED concVars
Refresh(k, ttl) ==
  Step("Refresh", k, Zero, ttl, RefreshOp(Cache, k, ttl), NoTimer) /\ UNCHANGED concVars
Delete(k) == Step("Delete", k, Zero, 0, DeleteOp(Cache, k), NoTimer) /\ UNCHANGED concVars
DeleteAll(ord) ==
  Step("DeleteAll", "-", Zero, 0, DeleteAllOp(Cache, ord), NoTimer) /\ UNCHANGED concVars
SetCapacity(n) ==
  Step("SetCapacity", "-", n, 0, SetCapacityOp(Cache, n), NoTimer) /\ UNCHANGED concVars
OnWatch(k) == Step("OnWatch", k, Zero, 0, OnWatchOp(Cache, k), NoTimer) /\ UNCHANGED concVars
Length == Step("Len", "-", Zero, 0, LenOp(Cache), NoTimer) /\ UNCHANGED concVars
Range(ord, stop) ==
  Step("Range", "-", Zero, 0, RangeOp(Cache, ord, stop), NoTimer) /\ UNCHANGED concVars
GetAllKeys(ord) ==
  Step("GetAllKeys", "-", Zero, 0, GetAllKeysOp(Cache, ord), NoTimer) /\ UNCHANGED concVars
GetAllValues(ord) ==
  Step("GetAllValues", "-", Zero, 0, GetAllValuesOp(Cache, ord), NoTimer) /\ UNCHANGED concVars
GetAllItems ==
  Step("GetAllItems", "-", Zero, 0, GetAllItemsOp(Cache), NoTimer) /\ UNCHANGED concVars
Fire(t) ==
  Step("Fire", timers[t].key, Zero, 0, FireOp(Cache, t), t) /\ UNCHANGED concVars

\* ------------------------------------------------- concurrent goroutines
\* Each goroutine makes MaxThreadOps calls.  A call is split where c.mu is
\* taken and released: what runs between Lock and Unlock is one step, and so
\* is every access made with the guard not held.
Free == guard.w = 0 /\ guard.r = {}
\* guard.w while a timer callback is inside c.Delete
CbOwner == NumThreads + 1
NoOne == [w |-> 0, r |-> {}]

\* the elements held in local variables of goroutines
Roots(th, cb) == {th[u].item : u \in Threads} \cup {cb[i].elem : i \in DOMAIN cb}

\* One step of a goroutine: the cache becomes r.c, the goroutines become th
\* and cb, the guard becomes g.
Commit(r, th, cb, g) ==
  /\ status = "running"
  /\ Within(r.c)
  /\ LET cn == Canon(r.c, Roots(th, cb))
         c == cn.c
         NewE(e) == IF e \in DOMAIN cn.emap THEN cn.emap[e] ELSE 0
     IN /\ items' = c.items
        /\ list' = c.list
        /\ node' = c.node
        /\ timers' = c.timers
        /\ capacity' = c.capacity
        /\ status' = c.status
        /\ thr' = [u \in Threads |-> [th[u] EXCEPT !.item = NewE(@)]]
        /\ cbs' = [i \in DOMAIN cb |-> [cb[i] EXCEPT !.elem = NewE(@)]]
  /\ guard' = g
  /\ calls' = r.calls
  /\ UNCHANGED <<lru, mon, due>>

\* c.mu.Lock() at the start of a call: the goroutine waits until the guard is free
Acquire(t, op, k, v) ==
  /\ status = "running"
  /\ thr[t].pc = "idle"
  /\ thr[t].n < MaxThreadOps
  /\ Free
  /\ guard' = [guard EXCEPT !.w = t]
  /\ thr' = [thr EXCEPT ![t] = [@ EXCEPT !.pc = op, !.key = k, !.val = v]]
  /\ UNCHANGED <<cacheVars, obsVars, cbs>>

\* the call returns
Return(t) == [thr EXCEPT ![t] = IdleThread(@.n + 1)]

TSetLock(t, k, v) == Acquire(t, "Set", k, v)
TSetBody(t) ==
  /\ thr[t].pc = "Set"
  /\ Commit(SetOp(Cache, thr[t].key, thr[t].val), Return(t), cbs, NoOne)

TSetWithTTLLock(t, k, v) == Acquire(t, "SetWithTTL", k, v)
TSetWithTTLBody(t) ==
  /\ thr[t].pc = "SetWithTTL"
  /\ Commit(SetWithTTLOp(Cache, thr[t].key, thr[t].val, 1),
            Return(t), cbs, NoOne)

TDeleteLock(t, k) == Acquire(t, "Delete", k, Zero)
TDeleteBody(t) ==
  /\ thr[t].pc = "Delete"
  /\ Commit(DeleteOp(Cache, thr[t].key), Return(t), cbs, NoOne)

\* Get: c.mu.RLock()
TGetRLock(t, k) ==
  /\ status = "running"
  /\ thr[t].pc = "idle"
  /\ thr[t].n < MaxThreadOps
  /\ guard.w = 0
  /\ guard' = [guard EXCEPT !.r = @ \cup {t}]
  /\ thr' = [thr EXCEPT ![t] = [@ EXCEPT !.pc = "GetLookup", !.key = k]]
  /\ UNCHANGED <<cacheVars, obsVars, cbs>>

\* Get: item, exists := c.items[key]; c.mu.RUnlock() on either branch
TGetLookup(t) ==
  /\ thr[t].pc = "GetLookup"
  /\ LET k == thr[t].key
         g == [guard EXCEPT !.r = @ \ {t}]
     IN IF k \in DOMAIN items
          THEN Commit(Res(Cache, <<>>, TRUE, Zero),
                      [thr EXCEPT ![t] = [@ EXCEPT !.pc = "GetTTL", !.item = items[k]]],
                      cbs, g)
          ELSE Commit(Res(Cache, <<>>, FALSE, Zero), Return(t), cbs, g)

\* Get: the argument item.Value.(*Item).ttl of c.Refresh, read with no guard
TGetTTL(t) ==
  /\ status = "running"
  /\ thr[t].pc = "GetTTL"
  /\ thr' = [thr EXCEPT ![t] = [@ EXCEPT !.pc = "GetRefreshLock",
                                         !.ttl = node[thr[t].item].ttl]]
  /\ UNCHANGED <<cacheVars, obsVars, guard, cbs>>

\* Get: c.Refresh takes c.mu.Lock()
TGetRefreshLock(t) ==
  /\ status = "running"
  /\ thr[t].pc = "GetRefreshLock"
  /\ Free
  /\ guard' = [guard EXCEPT !.w = t]
  /\ thr' = [thr EXCEPT ![t] = [@ EXCEPT !.pc = "GetRefresh"]]
  /\ UNCHANGED <<cacheVars, obsVars, cbs>>

\* Get: the body of c.Refresh(key, ttl), then the deferred Unlock
TGetRefresh(t) ==
  /\ thr[t].pc = "GetRefresh"
  /\ Commit(RefreshOp(Cache, thr[t].key, thr[t].ttl),
            [thr EXCEPT ![t] = [@ EXCEPT !.pc = "GetMove"]], cbs, NoOne)

\* Get: c.list.MoveToFront(item) and the read of item.value, with no guard
TGetMove(t) ==
  /\ thr[t].pc = "GetMove"
  /\ LET item == thr[t].item
     IN Commit(Res([Cache EXCEPT !.list = ListMoveToFront(@, item)], <<>>, TRUE,
                   node[item].value),
               Return(t), cbs, guard)

\* An armed timer fires: the runtime starts its callback in a goroutine of
\* its own.  From here on Stop() no longer prevents the callback.
CbStart(tid) ==
  /\ tid \in DOMAIN timers
  /\ LET tm == timers[tid]
         cb == [kind |-> tm.kind, key |-> tm.key, value |-> tm.value, elem |-> tm.elem,
                pc |-> IF tm.kind = "refresh" THEN "hook" ELSE "run"]
     IN Commit(Res(StopTimer(Cache, tid), <<>>, TRUE, Zero),
               thr, Append(cbs, cb), guard)

Without(s, i) == SubSeq(s, 1, i - 1) \o SubSeq(s, i + 1, Len(s))

\* the callback of SetWithTTL: it takes no guard at all
CbExpire(i) ==
  /\ i \in DOMAIN cbs
  /\ cbs[i].pc = "run"
  /\ Commit(ExpireCallback(Cache, cbs[i]), thr, Without(cbs, i), guard)

\* the callback of Refresh: c.onDelete(key, item.value), read with no guard
CbHook(i) ==
  /\ i \in DOMAIN cbs
  /\ cbs[i].pc = "hook"
  /\ Commit(Res(Cache, Hook("onDelete", cbs[i].key, node[cbs[i].elem].value), TRUE, Zero),
            thr, [cbs EXCEPT ![i].pc = "lock"], guard)

\* the callback of Refresh: c.Delete(key) takes c.mu.Lock()
CbLock(i) ==
  /\ status = "running"
  /\ i \in DOMAIN cbs
  /\ cbs[i].pc = "lock"
  /\ Free
  /\ guard' = [guard EXCEPT !.w = CbOwner]
  /\ cbs' = [cbs EXCEPT ![i].pc = "locked"]
  /\ UNCHANGED <<cacheVars, obsVars, thr>>

\* the callback of Refresh: the body of c.Delete(key), then the deferred Unlock
CbDelete(i) ==
  /\ i \in DOMAIN cbs
  /\ cbs[i].pc = "locked"
  /\ Commit(DeleteOp(Cache, cbs[i].key), thr,
            [cbs EXCEPT ![i].pc = "remove"], NoOne)

\* the callback of Refresh: c.list.Remove(item), with no guard
CbRemove(i) ==
  /\ i \in DOMAIN cbs
  /\ cbs[i].pc = "remove"
  /\ Commit(Res([Cache EXCEPT !.list = ListRemove(@, cbs[i].elem)], <<>>, TRUE, Zero),
            thr, Without(cbs, i), guard)

\* the goroutines whose next step reads or writes c.items or c.list with the
\* guard not held: every one of these steps writes
UnguardedThreads == {t \in Threads : thr[t].pc = "GetMove"}
UnguardedCbs == {i \in DOMAIN cbs : cbs[i].pc \in {"run", "remove"}}
Unguarded == Cardinality(UnguardedThreads) + Cardinality(UnguardedCbs)
\* two goroutines are in the map or the list at once, one of them writing
Racing == Unguarded >= 2 \/ (Unguarded >= 1 /\ ~Free)

\* A data race has no defined outcome (the Go memory model): besides the
\* outcomes of the two orders, the program may end up in any state.
DataRace ==
  /\ status = "running"
  /\ Racing
  /\ status' = "raced"
  /\ UNCHANGED <<items, list, node, timers, capacity, obsVars, concVars>>

\* no goroutine is inside a call and no callback is running
Quiescent == Free /\ cbs = <<>> /\ \A t \in Threads : thr[t].pc = "idle"
AllDone == Quiescent /\ \A t \in Threads : thr[t].n = MaxThreadOps

\* tcache.New(capacity), every hook registered, no call made yet
Init ==
  /\ items = <<>>
  /\ list = <<>>
  /\ node = <<>>
  /\ timers = <<>>
  /\ capacity \in CapArgs
  /\ status = "running"
  /\ calls = <<>>
  /\ lru = [fresh |-> TRUE, cap0 |-> capacity, keys |-> <<>>, vals |-> <<>>, evicts |-> <<>>]
  /\ mon = MonOff
  /\ due = DueOff
  /\ guard = [w |-> 0, r |-> {}]
  /\ thr = [t \in Threads |-> IdleThread(0)]
  /\ cbs = <<>>

\* Every operation, called one after the other by one goroutine, with timers
\* firing in between; two keys, one value, and only the states with at most
\* two list elements and one armed timer.
Small == Len(list) <= 2 /\ Cardinality(DOMAIN timers) <= 1
Next ==
  \/ \E k \in FewKeys, v \in OneValue : Set(k, v) /\ Small'
  \/ \E k \in FewKeys, v \in OneValue, ttl \in TTLs : SetWithTTL(k, v, ttl) /\ Small'
  \/ \E k \in FewKeys : Get(k) /\ Small'
  \/ \E k \in FewKeys : Has(k)
  \/ \E k \in FewKeys, v \in OneValue : Update(k, v)
  \/ \E k \in FewKeys, v \in OneValue, ttl \in TTLs : UpdateWithTTL(k, v, ttl) /\ Small'
  \/ \E k \in FewKeys, ttl \in TTLs : Refresh(k, ttl) /\ Small'
  \/ \E k \in FewKeys : Delete(k)
  \/ \E ord \in Orders(DOMAIN items) : DeleteAll(ord)
  \/ \E n \in CapArgs : SetCapacity(n)
  \/ \E k \in FewKeys : OnWatch(k) /\ Small'
  \/ \E t \in DOMAIN timers : Fire(t)

Spec == Init /\ [][Next]_vars

\* Set, Get and Has alone, over MaxCap + 1 keys and two values.
NextBasic ==
  \/ \E k \in Keys, v \in Values : Set(k, v)
  \/ \E k \in Keys : Get(k)
  \/ \E k \in Keys : Has(k)

SpecBasic == Init /\ [][NextBasic]_vars

\* The operations without a TTL, watches included: entries never hold a timer.
NextLRU ==
  \/ \E k \in Keys, v \in OneValue : Set(k, v)
  \/ \E k \in Keys : Get(k)
  \/ \E k \in Keys : Delete(k)
  \/ \E n \in CapArgs : SetCapacity(n)
  \/ \E k \in Keys : OnWatch(k)

SpecLRU == Init /\ [][NextLRU]_vars

\* Entries with a TTL, over two keys and two values, without watches.
NextTTL ==
  \/ \E k \in FewKeys, v \in Values : Set(k, v)
  \/ \E k \in FewKeys, v \in Values : SetWithTTL(k, v, 1)
  \/ \E k \in FewKeys : Get(k)
  \/ \E k \in FewKeys, v \in Values : Update(k, v)
  \/ \E t \in DOMAIN timers : Fire(t)

SpecTTL == Init /\ [][NextTTL]_vars

\* NumThreads goroutines calling Set, Get and Delete; no entry has a TTL.
NextConc ==
  \/ \E t \in Threads, k \in FewKeys, v \in OneValue : TSetLock(t, k, v)
  \/ \E t \in Threads : TSetBody(t)
  \/ \E t \in Threads, k \in FewKeys : TDeleteLock(t, k)
  \/ \E t \in Threads : TDeleteBody(t)
  \/ \E t \in Threads, k \in FewKeys : TGetRLock(t, k)
  \/ \E t \in Threads : TGetLookup(t)
  \/ \E t \in Threads : TGetTTL(t)
  \/ \E t \in Threads : TGetRefreshLock(t)
  \/ \E t \in Threads : TGetRefresh(t)
  \/ \E t \in Threads : TGetMove(t)
  \/ DataRace

SpecConc == Init /\ [][NextConc]_vars

\* Goroutines calling SetWithTTL, Get and Delete on one key, and the timer
\* callbacks running beside them.
OneKey == {"a"}
NextConcTTL ==
  \/ \E t \in Threads, k \in OneKey, v \in OneValue : TSetWithTTLLock(t, k, v)
  \/ \E t \in Threads : TSetWithTTLBody(t)
  \/ \E t \in Threads, k \in OneKey : TDeleteLock(t, k)
  \/ \E t \in Threads : TDeleteBody(t)
  \/ \E t \in Threads, k \in OneKey : TGetRLock(t, k)
  \/ \E t \in Threads : TGetLookup(t)
  \/ \E t \in Threads : TGetTTL(t)
  \/ \E t \in Threads : TGetRefreshLock(t)
  \/ \E t \in Threads : TGetRefresh(t)
  \/ \E t \in Threads : TGetMove(t)
  \/ \E tid \in DOMAIN timers : CbStart(tid)
  \/ \E i \in DOMAIN cbs : CbExpire(i)
  \/ \E i \in DOMAIN cbs : CbHook(i)
  \/ \E i \in DOMAIN cbs : CbLock(i)
  \/ \E i \in DOMAIN cbs : CbDelete(i)
  \/ \E i \in DOMAIN cbs : CbRemove(i)
  \/ DataRace

SpecConcTTL == Init /\ [][NextConcTTL]_vars

\* Entries written by Set, SetWithTTL, Update and UpdateWithTTL, and their
\* timers, over two keys and two values.
NextUpdate ==
  \/ \E k \in FewKeys, v \in Values : Set(k, v)
  \/ \E k \in FewKeys, v \in Values : SetWithTTL(k, v, 1)
  \/ \E k \in FewKeys, v \in Values : Update(k, v)
  \/ \E k \in FewKeys, v \in Values, ttl \in TTLs : UpdateWithTTL(k, v, ttl)
  \/ \E t \in DOMAIN timers : Fire(t)

SpecUpdate == Init /\ [][NextUpdate]_vars

\* Entries with a TTL whose deadline is moved by Refresh, over two keys.
NextRefresh ==
  \/ \E k \in FewKeys, v \in OneValue : Set(k, v)
  \/ \E k \in FewKeys, v \in OneValue : SetWithTTL(k, v, 1)
  \/ \E k \in FewKeys, ttl \in TTLs : Refresh(k, ttl)
  \/ \E k \in FewKeys : Delete(k)
  \/ \E t \in DOMAIN timers : Fire(t)

SpecRefresh == Init /\ [][NextRefresh]_vars

\* The operations that only read, and Update / UpdateWithTTL (which gives an
\* entry a timer), on entries written by Set, over two keys and two values.
NextFrame ==
  \/ \E k \in FewKeys, v \in OneValue : Set(k, v)
  \/ \E k \in FewKeys : Has(k)
  \/ Length
  \/ \E ord \in Orders(DOMAIN items), stop \in SUBSET DOMAIN items : Range(ord, stop)
  \/ \E ord \in Orders(DOMAIN items) : GetAllKeys(ord)
  \/ \E ord \in Orders(DOMAIN items) : GetAllValues(ord)
  \/ GetAllItems
  \/ \E k \in FewKeys, v \in Values : Update(k, v)
  \/ \E k \in FewKeys, v \in Values, ttl \in TTLs : UpdateWithTTL(k, v, ttl)
  \/ \E t \in DOMAIN timers : Fire(t)

SpecFrame == Init /\ [][NextFrame]_vars

\* A watch attached to a key and the operations that name that key: OnWatch,
\* the writes, Refresh, Get and Delete, over two keys, with timers firing.
NextWatch ==
  \/ \E k \in FewKeys : OnWatch(k) /\ Small'
  \/ \E k \in FewKeys, v \in OneValue : Set(k, v) /\ Small'
  \/ \E k \in FewKeys, v \in OneValue, ttl \in TTLs : SetWithTTL(k, v, ttl) /\ Small'
  \/ \E k \in FewKeys, v \in OneValue : Update(k, v)
  \/ \E k \in FewKeys, v \in OneValue, ttl \in TTLs : UpdateWithTTL(k, v, ttl) /\ Small'
  \/ \E k \in FewKeys, ttl \in TTLs : Refresh(k, ttl) /\ Small'
  \/ \E k \in FewKeys : Get(k) /\ Small'
  \/ \E k \in FewKeys : Delete(k)
  \/ \E t \in DOMAIN timers : Fire(t)

SpecWatch == Init /\ [][NextWatch]_vars

\* SetCapacity called with any integer, non-positive ones included, on caches
\* filled by Set and emptied by Delete.
CapInts == (-1) .. MaxCap
NextCap ==
  \/ \E k \in Keys, v \in Values : Set(k, v)
  \/ \E k \in Keys : Get(k)
  \/ \E k \in Keys : Delete(k)
  \/ \E n \in CapInts : SetCapacity(n)

SpecCap == Init /\ [][NextCap]_vars

\* Entries given a TTL by SetWithTTL or UpdateWithTTL, on keys absent, present
\* or watched, then read by Get while their timers run; the due observer is on.
\* An armed timer fires once its duration has passed: weak fairness of Fire.
InitExpiry ==
  /\ items = <<>>
  /\ list = <<>>
  /\ node = <<>>
  /\ timers = <<>>
  /\ capacity \in CapArgs
  /\ status = "running"
  /\ calls = <<>>
  /\ lru = [fresh |-> TRUE, cap0 |-> capacity, keys |-> <<>>, vals |-> <<>>, evicts |-> <<>>]
  /\ mon = MonOff
  /\ due = DueIdle
  /\ guard = [w |-> 0, r |-> {}]
  /\ thr = [t \in Threads |-> IdleThread(0)]
  /\ cbs = <<>>
NextExpiry ==
  \/ \E k \in FewKeys, v \in OneValue : Set(k, v) /\ Small'
  \/ \E k \in FewKeys : OnWatch(k) /\ Small'
  \/ \E k \in FewKeys, v \in OneValue : SetWithTTL(k, v, 1) /\ Small'
  \/ \E k \in FewKeys, v \in OneValue : UpdateWithTTL(k, v, 1) /\ Small'
  \/ \E k \in FewKeys : Get(k) /\ Small'
  \/ \E k \in FewKeys, v \in OneValue : Update(k, v)
  \/ \E k \in FewKeys : Delete(k)
  \/ \E t \in DOMAIN timers : Fire(t)

\* the armed timers of key k: one of them fires
Expire(k) == \E t \in DOMAIN timers : timers[t].key = k /\ Fire(t)
SpecExpiry ==
  InitExpiry /\ [][NextExpiry]_vars /\ \A k \in FewKeys : WF_vars(Expire(k))

\* -------------------------------------------------------------- properties
ListKeys == {node[e].key : e \in SeqSet(list)}
\* the stored keys from most to least recently used
KeysByRecency ==
  LET cur == SelectSeq(list, LAMBDA e : node[e].key \in DOMAIN items
                                        /\ items[node[e].key] = e)
  IN [i \in DOMAIN cur |-> node[cur[i]].key]

\* C1: on a fresh cache of capacity n, after n+1 Set calls with pairwise
\* distinct keys and nothing else, Has is false for the first key and true for
\* the other n, and onEvict was invoked exactly once, with the first key and
\* its value.
C1_LRUProperty ==
  (lru.fresh /\ Len(lru.keys) = lru.cap0 + 1) =>
    /\ ~HasOp(Cache, lru.keys[1]).ok
    /\ \A i \in 2 .. Len(lru.keys) : HasOp(Cache, lru.keys[i]).ok
    /\ lru.evicts = Hook("onEvict", lru.keys[1], lru.vals[1])
C1_Witness ==
  lru.fresh /\ lru.cap0 = MaxCap /\ Len(lru.keys) = MaxCap + 1 /\ Len(lru.evicts) = 1

\* C2: Get(k) on a present key makes k the most recently used entry, so the
\* insertion of an absent key right after it never evicts k (capacity >= 2).
C2_ReadPromotes ==
  [][\A k \in Keys :
       (k \in DOMAIN items /\ capacity >= 2 /\ Get(k)) =>
         /\ node'[Head(list')].key = k
         /\ \A k2 \in Keys \ DOMAIN items' : \A v \in Values :
              k \in DOMAIN SetOp(Cache', k2, v).c.items]_vars

\* C3: after every completed operation the number of stored entries (Len) is
\* at most the capacity (the capacity is positive in every state).
C3_CapacityBound ==
  status = "running" => Cardinality(DOMAIN items) <= capacity

\* C4: whenever no operation is in flight, the keys of the entry map are the
\* keys held by the list's elements, and the list is as long as the map is large.
C4_QuiescentConsistency ==
  status = "running" =>
    (DOMAIN items = ListKeys /\ Len(list) = Cardinality(DOMAIN items))

\* C5: after SetWithTTL(k, v, d > 0) on an absent key, with no other operation
\* on k, once the entry's timer has fired Has(k) is false, k is in neither
\* structure, and onExpire was invoked exactly once, with (k, v).
C5_TTLExpiry ==
  (mon.phase = "fired" /\ mon.gets = 0) =>
    /\ ~HasOp(Cache, mon.key).ok
    /\ mon.key \notin ListKeys
    /\ SelectSeq(mon.hooks, IsExpire) = Hook("onExpire", mon.key, mon.val)

\* C6: after SetWithTTL(k, v, d > 0), a Get(k) before the deadline returns
\* (v, true); once the entry's expiration has then fired, Get(k) finds nothing
\* and onExpire was invoked exactly once, with (k, v).
C6_ReadBeforeExpiry ==
  /\ mon.gets >= 1 => mon.getOk
  /\ (mon.phase = "fired" /\ mon.gets >= 1) =>
       /\ ~GetOp(Cache, mon.key).ok
       /\ SelectSeq(mon.hooks, IsExpire) = Hook("onExpire", mon.key, mon.val)

\* C7: no operation panics, whatever the key's state.
C7_Totality == status # "panic"

\* C8: every read or write of the entry map and of the recency list, by a
\* public operation or by a timer callback, happens while the guard is held
\* (exclusively for writes), and no two goroutines are in that state at once
\* with one of them writing.
C8_ThreadSafety == Unguarded = 0 /\ ~Racing

\* C9: goroutines calling Set, Get and Delete concurrently all finish in every
\* interleaving (the program neither dies nor stops with a call pending), and
\* when they have finished the keys of the map are the keys of the list.
C9_Concurrency ==
  /\ status = "running"
  /\ AllDone \/ ENABLED NextConc
  /\ Quiescent => DOMAIN items = ListKeys

\* C10: SetCapacity(n), n >= 1, leaves Len() <= n; it removes exactly the
\* Len_before - n least recently used entries, least recent first, each with
\* one onEvict(key, value); with Len_before <= n it removes nothing and no
\* hook fires.
C10_SetCapacity ==
  [][\A n \in CapArgs :
       SetCapacity(n) =>
         LET before == Cardinality(DOMAIN items)
             order == KeysByRecency
             gone == IF before > n THEN before - n ELSE 0
         IN /\ Cardinality(DOMAIN items') <= n
            /\ DOMAIN items' = (DOMAIN items) \ {order[before + 1 - i] : i \in 1 .. gone}
            /\ calls' = [i \in 1 .. gone |->
                           Hook("onEvict", order[before + 1 - i],
                                node[items[order[before + 1 - i]]].value)[1]]]_vars

IsDelete(call) == call.fn = "onDelete"
IsUpdate(call) == call.fn = "onUpdate"
IsWatch(call) == call.fn = "onWatch"

\* C11: Delete(k) on a present key removes k from the map and from the list
\* and invokes onDelete exactly once, with (k, current value); on an absent
\* key it changes no state and invokes nothing (so a second Delete(k) is a
\* no-op).
C11_Delete ==
  [][\A k \in Keys :
       Delete(k) =>
         IF k \in DOMAIN items
           THEN /\ k \notin DOMAIN items'
                /\ k \notin ListKeys'
                /\ SelectSeq(calls', IsDelete) = Hook("onDelete", k, node[items[k]].value)
                /\ DeleteOp(Cache', k).c = Cache' /\ DeleteOp(Cache', k).calls = <<>>
           ELSE UNCHANGED cacheVars /\ calls' = <<>>]_vars

\* C12: after DeleteAll returns the map and the list are empty, whatever mix
\* of entries with and without TTL was stored, and onDelete was invoked
\* exactly once for each entry that was present, with its key and value.
C12_DeleteAll ==
  [][\A ord \in Orders(DOMAIN items) :
       DeleteAll(ord) =>
         /\ DOMAIN items' = {}
         /\ list' = <<>>
         /\ Len(calls') = Cardinality(DOMAIN items)
         /\ \A k \in DOMAIN items :
              \E i \in DOMAIN calls' :
                calls'[i] = Hook("onDelete", k, node[items[k]].value)[1]]_vars

\* C13: Update(k, v2) and UpdateWithTTL(k, v2, ttl) on a present key whose
\* value is v1 store v2 and invoke onUpdate exactly once, with (k, v1, v2);
\* on an absent key they change nothing and invoke no hook.
UpdateNotifies(k, v2) ==
  IF k \in DOMAIN items
    THEN /\ k \in DOMAIN items' /\ node'[items'[k]].value = v2
         /\ calls' = Hook2("onUpdate", k, node[items[k]].value, v2)
    ELSE UNCHANGED cacheVars /\ calls' = <<>>
C13_UpdateNotification ==
  [][\A k \in FewKeys : \A v2 \in Values :
       /\ Update(k, v2) => UpdateNotifies(k, v2)
       /\ \A ttl \in TTLs : UpdateWithTTL(k, v2, ttl) => UpdateNotifies(k, v2)]_vars

\* the keys of the list's elements, front first
ListOrder == [i \in DOMAIN list |-> node[list[i]].key]
\* the armed timers whose callback, run now, would remove key k from the map
Removers(k) == {t \in DOMAIN timers : k \notin DOMAIN FireOp(Cache, t).c.items}

\* C14: Refresh(k, d2), d2 > 0, on a present key disarms the timer armed
\* before and arms exactly one new timer: afterwards the entry's timer is the
\* only armed timer that can remove k, so k stays until that timer fires; the
\* value and the recency order are unchanged.  On an absent key Refresh
\* changes nothing and arms nothing.
C14_RefreshExtendsLife ==
  [][\A k \in FewKeys :
       Refresh(k, 1) =>
         IF k \in DOMAIN items
           THEN /\ k \in DOMAIN items'
                /\ node'[items'[k]].value = node[items[k]].value
                /\ ListOrder' = ListOrder
                /\ Removers(k)' = {node'[items'[k]].timer}
           ELSE UNCHANGED cacheVars]_vars

\* the step's calls contain hook fn for key k
Called(cs, fn, k) == \E j \in DOMAIN cs : cs[j].fn = fn /\ cs[j].key = k

\* C15: a watch attached to k is invoked with EVICT only in a step that evicts
\* k itself, with DELETE only in a step that deletes k itself, and with UPDATE
\* (old value, new value) only in a step that overwrites k's value; the
\* eviction or overwrite of another key never invokes it.
C15_WatchOwnKey ==
  [][\A i \in DOMAIN calls' :
       LET w == calls'[i]
       IN IsWatch(w) =>
            /\ w.op = "EVICT" => Called(calls', "onEvict", w.key)
            /\ w.op = "DELETE" => (Called(calls', "onDelete", w.key) /\ w.key \notin DOMAIN items')
            /\ w.op = "UPDATE" =>
                 /\ w.key \in DOMAIN items /\ w.key \in DOMAIN items'
                 /\ w.old = node[items[w.key]].value
                 /\ w.new = node'[items'[w.key]].value]_vars

\* C16: Set(k, v2) on a present key replaces k's value by v2 and makes k the
\* most recent entry without removing any key: the set of present keys (and
\* so Len) is unchanged and onEvict is not invoked, also at capacity.
C16_OverwriteBySet ==
  [][\A k \in Keys : \A v2 \in Values :
       (k \in DOMAIN items /\ Set(k, v2)) =>
         /\ status' = "running"
         /\ DOMAIN items' = DOMAIN items
         /\ node'[items'[k]].value = v2
         /\ items'[k] = Head(list')
         /\ SelectSeq(calls', IsEvict) = <<>>]_vars

\* armed timer t is the one stored in the entry now kept under its key
Current(t) ==
  /\ timers[t].key \in DOMAIN items
  /\ node[items[timers[t].key]].timer = t

\* C17: a timer that fires when the entry stored under its key is not the
\* entry it was armed for (the key was deleted, evicted or overwritten since)
\* changes no state and invokes no hook.
C17_StaleFire ==
  [][\A t \in DOMAIN timers :
       (~Current(t) /\ Fire(t)) =>
         /\ DOMAIN items' = DOMAIN items
         /\ ListOrder' = ListOrder
         /\ calls' = <<>>]_vars

\* the armed timers whose closure names key k
TimersOf(k) == {t \in DOMAIN timers : timers[t].key = k}

\* C18: every path that removes or replaces an entry stops its pending timer:
\* whenever no operation is in flight each present key has at most one armed
\* timer and no armed timer exists for an absent key.
C18_DisarmOnDestruction ==
  status = "running" =>
    /\ \A k \in DOMAIN items : Cardinality(TimersOf(k)) <= 1
    /\ \A t \in DOMAIN timers : timers[t].key \in DOMAIN items

\* C19: when the timer armed by SetWithTTL or UpdateWithTTL for the entry
\* stored under k fires, onExpire is invoked with (k, the value stored at that
\* moment), also when Update replaced the value after the timer was armed.
C19_ExpireCurrentValue ==
  [][\A t \in DOMAIN timers :
       (Current(t) /\ timers[t].kind \in {"set", "upd"} /\ Fire(t)) =>
         SelectSeq(calls', IsExpire)
           = Hook("onExpire", timers[t].key, node[items[timers[t].key]].value)]_vars

IsVisit(call) == call.fn = "fn"
Frame == DOMAIN items' = DOMAIN items /\ ListOrder' = ListOrder
\* the calls of fn made by Range(ord, stop): distinct present keys, and no
\* call after the first one that returned false
VisitsOnceUntilFalse(cs, stop) ==
  /\ \A i \in DOMAIN cs : IsVisit(cs[i]) /\ cs[i].key \in DOMAIN items
  /\ \A i, j \in DOMAIN cs : i # j => cs[i].key # cs[j].key
  /\ \A i \in DOMAIN cs : i < Len(cs) => cs[i].key \notin stop
  /\ Len(cs) < Cardinality(DOMAIN items) => cs[Len(cs)].key \in stop

\* C20: Has, Len, Range, GetAllKeys, GetAllValues, GetAllItems, Update and
\* UpdateWithTTL leave the recency order and the set of present keys
\* unchanged (so Update on the least recently used key leaves it the next
\* victim); Range visits each present key at most once and stops at the
\* first visit that returns false.
C20_RecencyFrame ==
  [][/\ \A k \in FewKeys : Has(k) => Frame
     /\ Length => Frame
     /\ GetAllItems => Frame
     /\ \A ord \in Orders(DOMAIN items) :
          /\ GetAllKeys(ord) => Frame
          /\ GetAllValues(ord) => Frame
          /\ \A stop \in SUBSET DOMAIN items :
               Range(ord, stop) => (Frame /\ VisitsOnceUntilFalse(calls', stop))
     /\ \A k \in FewKeys : \A v \in Values :
          /\ Update(k, v) =>
               /\ Frame
               /\ (list # <<>> /\ node[ListBack(list)].key = k)
                    => node'[ListBack(list')].key = k
          /\ \A ttl \in TTLs : UpdateWithTTL(k, v, ttl) => Frame]_vars
\* Update has just run on the least recently used of two entries
C20_Witness ==
  /\ Len(list) = 2
  /\ Cardinality(DOMAIN items) = 2
  /\ calls # <<>>
  /\ IsUpdate(calls[1])
  /\ calls[1].key = node[ListBack(list)].key

\* the Item stored under k holds a watch callback
Attached(k) == k \in DOMAIN items /\ node[items[k]].onWatch
\* the step's calls contain an invocation of k's watch
Invokes(cs, k) == \E j \in DOMAIN cs : IsWatch(cs[j]) /\ cs[j].key = k

\* C21: after OnWatch(k, f) the watch is attached to k; it stays attached
\* across Set, SetWithTTL, Update, UpdateWithTTL, Refresh and Get on k, and a
\* Set or SetWithTTL that overwrites k returns and invokes f; a step that
\* deletes or evicts k detaches it, and a Set on k without a watch (the
\* re-insertion, and the overwrite after it) attaches none and invokes none.
C21_WatchSurvival ==
  [][\A k \in FewKeys :
       /\ OnWatch(k) => Attached(k)'
       /\ Attached(k) =>
            \A v \in OneValue : \A ttl \in TTLs :
              /\ (Set(k, v) \/ SetWithTTL(k, v, ttl)) =>
                   (status' = "running" /\ Attached(k)' /\ Invokes(calls', k))
              /\ (Update(k, v) \/ UpdateWithTTL(k, v, ttl) \/ Refresh(k, ttl) \/ Get(k)) =>
                   Attached(k)'
       /\ (Delete(k) \/ Called(calls', "onEvict", k)) => ~Attached(k)'
       /\ ~Attached(k) =>
            \A v \in OneValue : Set(k, v) => (~Attached(k)' /\ ~Invokes(calls', k))]_vars

\* C22: SetCapacity(n) returns for every integer n, zero and negative values
\* included, in every cache state: the call never stays in its loop with the
\* guard held, so later operations can proceed.
C22_SetCapacityTerminates == status # "hung"

\* the entry under the observed key is still there, its latest write having
\* given it a TTL
ExpiryPending == due.phase = "pending" /\ due.key \in DOMAIN items
\* the same, for the write numbered n on key k
PendingWrite(k, n) == ExpiryPending /\ due.key = k /\ due.n = n
\* the timer stored in k's entry is armed, and it is the only armed timer for k
OneArmed(k) ==
  /\ node[items[k]].timer \in DOMAIN timers
  /\ TimersOf(k) = {node[items[k]].timer}

\* C23: an entry whose most recent write was SetWithTTL(k, v, d) or
\* UpdateWithTTL(k, v, d), d > 0 (on an absent, present or watched key), has
\* exactly one armed timer after any number of Get(k) calls, and, unless a
\* Set, Update, Refresh or Delete targets k, it is eventually removed.
C23_ReadsKeepExpiry ==
  /\ []((ExpiryPending /\ status = "running") => OneArmed(due.key))
  /\ \A k \in FewKeys : \A n \in {0, 1} :
       PendingWrite(k, n) ~> (~PendingWrite(k, n) \/ status # "running")

====
